---- MODULE Spec2Model ----
(***************************************************************************)
(* Model of the BlenderGeminiAgent bridge: the HTTP listener               *)
(* (server.py, AgentRequestHandler.do_POST), the shared execution_queue    *)
(* and the timer callback process_queue (engine.py) that executes queued   *)
(* Tasks on Blender's main thread, plus the Start/Stop operators that bind *)
(* the listener and register the timer.  The package holds that code twice *)
(* (the modules engine.py, server.py, operators.py and the single-file     *)
(* __init__.py); do_POST and process_queue are the same text in both, the  *)
(* operators differ, and `variant` says which copy is the one in use.      *)
(*                                                                         *)
(* Two threads are modelled.  The listener thread serves one request at a  *)
(* time (socketserver.TCPServer is not threading); the host thread runs    *)
(* the operators and the timer callback.  The host thread is split at the  *)
(* accesses to the shared queues (empty(), get(), put()), which is where   *)
(* the listener can interleave.                                            *)
(***************************************************************************)
EXTENDS Integers, Sequences, FiniteSets, TLC

\* ---------------------------------------------------------------- bounds
\* Number of requests the listener accepts in one behaviour.
MaxRequests == 2
\* The same, for the behaviours that cover both copies of the operators.
MaxLifecycleRequests == 1
\* Largest setting of the agent's turn limit, and function calls in one
\* model response.
MaxTurnsSetting == 2
MaxCallsPerResponse == 1

\* ------------------------------------------------------------- constants
\* queue.Queue() is built without maxsize: 0 means "no capacity limit".
ResQueueMaxsize == 0

Ids == 1..MaxRequests
NoTask == 0
NoFile == 0
\* A file left at <tmp>/agent_view.png by an earlier session.
StaleFile == -1

\* What the submitted source text does when exec() runs it.
\*   returns      - runs to the end
\*   raises       - raises a subclass of Exception
\*   raisesBase   - raises a BaseException that is not an Exception
\*                  (KeyboardInterrupt, GeneratorExit)
\*   closesStdout - closes sys.stdout (the StringIO capture) and returns
CodeKinds == {"returns", "raises", "raisesBase", "closesStdout"}

\* What bpy.ops.render.render(write_still=True) does.
RenderOutcomes == {"file", "nofile", "raises"}

Paths == {"/run", "/view", "/other"}
\* invalid: json.loads raises; nonobject: valid JSON that is not a dict.
Bodies == {"object", "nonobject", "invalid"}

NoneTask == [type |-> "none", content |-> "-"]
\* No request with this number has arrived.
NoRequest == [path |-> "-", body |-> "-"]

\* lastOp is a history variable that only the properties of the operators
\* read: the behaviours that start with this value do not record it.
NotRecorded == "unrecorded"

\* The copy of the operators in use: operators.py with server.py, or the
\* single-file __init__.py.
Variants == {"modules", "single"}

VARIABLES
  variant,          \* which copy of the add-on code is in use
  registered,       \* the operator classes are registered with bpy.utils
  httpd,            \* the global httpd is not None
  boundSockets,     \* listening sockets that are bound and not closed
  pendingThreads,   \* listener threads started that have not yet bound
  servingThreads,   \* listener threads inside serve_forever
  timerRegs,        \* registrations of process_queue in bpy.app.timers
  lastOp,           \* the operator that returned in the step just taken
  session,          \* whether Stop was the last operator, first id after it
  execution_queue,  \* engine.execution_queue: sequence of Task ids
  task,             \* the Task dict put on the queue for each request
  response_queue,   \* res_q of each request: sequence of Results
  responses,        \* HTTP responses sent for each request
  nextId,           \* next request to arrive
  requestsLeft,     \* requests the callers still send in this behaviour
  request,          \* path and body of each request that arrived
  lpc, lreq,        \* listener thread: position and current request
  hpc, cur,         \* host thread: position and Task being executed
  tickResult,       \* how the last process_queue invocation ended
  camera,           \* bpy.context.scene.camera is set
  outFile,          \* content of <tmp>/agent_view.png
  renderSettings,   \* scene.render file_format/filepath/engine
  rendered,         \* Tasks for which bpy.ops.render.render was called
  hostLog,          \* order in which handlers acted on host state
  running,          \* Tasks whose handler is running
  finished,         \* Tasks whose handler has ended
  execCount,        \* times each Task was dequeued
  putCount,         \* puts made on each response_queue
  coQueued,         \* pairs <<A, B>>: B enqueued while A was queued
  enqueuedInTick,   \* Tasks enqueued while the running tick was in its loop
  sys_stdout,       \* the stream sys.stdout is bound to
  sys_stderr,       \* the stream sys.stderr is bound to
  module_globals,   \* globals() of the bridge module: name -> binding
  exec_globals,     \* the dict the last code Task was executed in
  agentCode,        \* the agent program in use: app.py or agent_client.py
  max_turns,        \* max_turns (app.py) / MAX_LOOP_COUNT (agent_client.py)
  apc,              \* agent: position in the prompt handler
  turn_count,       \* turn_count (app.py) / current_loop (agent_client.py)
  response,         \* function calls of the model response held in `response`
  pending,          \* function_call_parts not yet handled in this turn
  turnsProcessed,   \* tool turns processed for the current prompt
  http,             \* what requests.post gave BlenderClient last
  toolResult        \* what the BlenderClient method returned last

netVars  == <<response_queue, responses, nextId, requestsLeft, request, lpc,
             lreq>>
hostVars == <<hpc, cur, tickResult>>
sceneVars == <<camera, outFile, renderSettings, rendered, hostLog>>
ghostVars == <<running, finished, execCount, putCount>>
bindVars == <<variant, registered, httpd, boundSockets, pendingThreads, servingThreads>>
lifeVars == <<bindVars, timerRegs>>
streamVars == <<sys_stdout, sys_stderr>>
globalsVars == <<module_globals, exec_globals>>
bridgeVars == <<variant, registered, httpd, boundSockets, pendingThreads, servingThreads,
          timerRegs, lastOp, session, execution_queue, task, response_queue,
          responses, nextId, requestsLeft, request, lpc, lreq, hpc, cur,
          tickResult, camera,
          outFile, renderSettings, rendered, hostLog, running, finished,
          execCount, putCount, coQueued,
          enqueuedInTick, sys_stdout, sys_stderr, module_globals,
          exec_globals>>
agentVars == <<agentCode, max_turns, apc, turn_count, response,
               pending, turnsProcessed, http, toolResult>>
vars == <<bridgeVars, agentVars>>

\* ------------------------------------------ what a code Task binds
\* Top-level names: three the bridge module defines and one it does not.
Names == {"execution_queue", "process_queue", "get_view3d_context", "x"}
Unbound == <<"unbound">>
ModuleObject(n) == <<"module", n>>
TaskObject(id, n) == <<"task", id, n>>

\* The globals of the bridge module after import.
BridgeGlobals ==
  [n \in Names |-> IF n = "x" THEN Unbound ELSE ModuleObject(n)]

\* No code Task was executed yet: there is no exec_globals dict.
NoGlobals == [n \in Names |-> Unbound]

\* The top-level names the submitted code binds before it returns or
\* raises: code that returns binds a new name, code that raises rebinds
\* names of the bridge module first.
CodeBinds(kind) ==
  CASE kind = "returns" -> {"x"}
    [] kind = "raises" -> {"execution_queue"}
    [] kind = "raisesBase" -> {"process_queue"}
    [] OTHER -> {}

\* exec_globals = globals().copy(): a new dict with the same bindings;
\* exec_globals['get_view3d_context'] = get_view3d_context
GlobalsCopy(globs) ==
  [globs EXCEPT !["get_view3d_context"] =
                   ModuleObject("get_view3d_context")]

\* exec(content, exec_globals): the code binds its top-level names in the
\* dict it is given.
BoundByExec(ns, kind, id) ==
  [n \in Names |-> IF n \in CodeBinds(kind) THEN TaskObject(id, n)
                   ELSE ns[n]]

\* exec(content, globals()): the dict the code binds in is the module's.
GlobalsAfterExecInPlace(globs, ns) == ns

\* The module's globals after exec ran the code in the copy ns.
GlobalsAfterExec(globs, ns) == globs

\* ------------------------------------------ what a code Task writes
\* The writes the submitted code makes while exec() runs it, in order: the
\* stream written to and the text.  Every kind prints "a" first; code that
\* returns also writes to sys.stderr and prints again.
CodeWrites(kind) ==
  IF kind = "returns"
  THEN << [stream |-> "stdout", text |-> "a"],
          [stream |-> "stderr", text |-> "e"],
          [stream |-> "stdout", text |-> "b"] >>
  ELSE << [stream |-> "stdout", text |-> "a"] >>

\* The exception exec() raises for the kinds that raise.
RaisedType(kind) ==
  IF kind = "raisesBase" THEN "KeyboardInterrupt" ELSE "ZeroDivisionError"

\* io.StringIO put in place of sys.stdout / sys.stderr: getvalue() is the
\* text written to that stream, in the order written.
RECURSIVE Captured(_, _)
Captured(stream, writes) ==
  IF writes = <<>> THEN <<>>
  ELSE (IF Head(writes).stream = stream THEN <<Head(writes).text>> ELSE <<>>)
       \o Captured(stream, Tail(writes))

\* traceback.format_exc(): the header, the frames and, last, the line
\* "<type name>: <message>".
FormatExc(type) == <<"Traceback (most recent call last):", "File", type>>

\* base64.b64encode(img_file.read()).decode('utf-8'): the encoding of a
\* file's content, which is not the content.
B64(file) == <<"base64", file>>
\* A Result that carries no image.
NoImage == <<>>

\* ------------------------------------------------------------ Results
\* line 53-54: output is stdout_capture.getvalue(), taken before the log
\* lines of lines 56-57 are written.
SuccessOutput(id) ==
  [status |-> "success", by |-> id, detail |-> "output", img |-> NoImage,
   text |-> Captured("stdout", CodeWrites(task[id].content))]
\* line 60-61: the message is the traceback of the exception caught.
ErrorTraceback(id, type) ==
  [status |-> "error", by |-> id, detail |-> "traceback", img |-> NoImage,
   text |-> FormatExc(type)]
ErrorNoCamera(id) ==
  [status |-> "error", by |-> id, detail |-> "nocamera", img |-> NoImage,
   text |-> <<"No camera found. Please create a camera.">>]
ErrorNoFile(id) ==
  [status |-> "error", by |-> id, detail |-> "nofile", img |-> NoImage,
   text |-> <<"Render finished but file not found.">>]
ErrorStr(id) ==
  [status |-> "error", by |-> id, detail |-> "str(e)", img |-> NoImage,
   text |-> <<"str(e)">>]
SuccessImage(id, file) ==
  [status |-> "success", by |-> id, detail |-> "image_base64",
   img |-> B64(file),
   text |-> <<>>]
\* Bodies the listener builds itself (by = NoTask: no Task produced them).
BodyTimeout == [status |-> "error", by |-> NoTask, detail |-> "timed out",
                img |-> NoImage, text |-> <<"timed out">>]
BodyNotFound == [status |-> "error", by |-> NoTask, detail |-> "Not found",
                 img |-> NoImage, text |-> <<"Not found">>]
BodyServerError == [status |-> "error", by |-> NoTask, detail |-> "str(e)",
                    img |-> NoImage, text |-> <<"str(e)">>]

Response(code, body) == [code |-> code, body |-> body]

\* bpy.app.timers.is_registered(process_queue)
timerRegistered == timerRegs > 0

\* The operator that returned is recorded until the next step of either
\* thread; a Start that directly follows a Start is the second (or a later)
\* Start in a row.
AfterStart(op) ==
  IF op = NotRecorded THEN op
  ELSE IF op \in {"start", "start2"} THEN "start2" ELSE "start"
\* Stop returned.
AfterStop(op) == IF op = NotRecorded THEN op ELSE "stop"
\* Any other step was taken.
AfterStep(op) == IF op = NotRecorded THEN op ELSE "none"

\* The session is a history variable as well: stopped from a Stop that
\* returned until the next Start, and the first request id that can arrive
\* after that Start.  A mark of NoSession says it is not recorded.
NoSession == -1
SessionAfterStart(s, id) ==
  IF s.mark = NoSession \/ ~s.stopped THEN s
  ELSE [stopped |-> FALSE, mark |-> id]
SessionAfterStop(s) ==
  IF s.mark = NoSession THEN s ELSE [s EXCEPT !.stopped = TRUE]

\* The streams sys.stdout and sys.stderr are bound to when Blender starts,
\* and the io.StringIO() objects process_queue puts in their place.
HostStream(name) == <<"host", name>>
CaptureStream(name) == <<"capture", name>>

\* Listener threads that are alive.
LiveThreads == pendingThreads + servingThreads

\* The state after the add-on is registered (module import and register()):
\* no listener, no timer, empty queue.
Loaded ==
  /\ registered = TRUE
  /\ httpd = FALSE
  /\ boundSockets = 0
  /\ pendingThreads = 0
  /\ servingThreads = 0
  /\ timerRegs = 0
  /\ execution_queue = <<>>
  /\ task = [i \in Ids |-> NoneTask]
  /\ response_queue = [i \in Ids |-> <<>>]
  /\ responses = [i \in Ids |-> <<>>]
  /\ nextId = 1
  /\ request = [i \in Ids |-> NoRequest]
  /\ lpc = "idle"
  /\ lreq = NoTask
  /\ hpc = "idle"
  /\ cur = NoTask
  /\ tickResult = "none"
  /\ camera \in BOOLEAN
  /\ outFile \in {NoFile, StaleFile}
  /\ renderSettings = "user"
  /\ rendered = {}
  /\ hostLog = <<>>
  /\ running = {}
  /\ finished = {}
  /\ execCount = [i \in Ids |-> 0]
  /\ putCount = [i \in Ids |-> 0]
  /\ coQueued = {}
  /\ enqueuedInTick = {}
  /\ sys_stdout = HostStream("stdout")
  /\ sys_stderr = HostStream("stderr")
  /\ module_globals = BridgeGlobals
  /\ exec_globals = NoGlobals

\* No agent program is running.
NoHttp == [kind |-> "none"]
NoReturn == [status |-> "none"]
AgentOff ==
  /\ agentCode = "app"
  /\ max_turns = 1
  /\ apc = "input"
  /\ turn_count = 0
  /\ response = <<>>
  /\ pending = <<>>
  /\ turnsProcessed = 0
  /\ http = NoHttp
  /\ toolResult = NoReturn

\* The add-on installed as the package modules.
Init ==
  /\ Loaded
  /\ AgentOff
  /\ variant = "modules"
  /\ requestsLeft = MaxRequests
  /\ lastOp = NotRecorded
  /\ session = [stopped |-> TRUE, mark |-> NoSession]

\* The add-on installed as either copy.
InitLifecycle ==
  /\ Loaded
  /\ AgentOff
  /\ variant \in Variants
  /\ requestsLeft = MaxLifecycleRequests
  /\ lastOp = "none"
  /\ session = [stopped |-> TRUE, mark |-> 1]

\* ------------------------------------------------- queue.Queue operations
\* A put that is not synchronised with the consumer: the item is lost when
\* the queue is not empty.
QPutLossy(q, x) == IF q = <<>> THEN <<x>> ELSE q

\* Queue.put: append at the tail.
QPut(q, x) == Append(q, x)
\* An empty() that reports every queue as empty.
QEmptyAlways(q) == TRUE

\* Queue.empty.
QEmpty(q) == q = <<>>
\* Queue.get: the item returned and the queue that is left.
QGetItem(q) == Head(q)
QGetRest(q) == Tail(q)

\* One response queue shared by all requests.
ChannelShared(id) == 1

\* The response queue a request waits on and its Task carries: a fresh
\* queue.Queue() per request.
ChannelOf(id) == id

\* A response queue built with maxsize=1.
CanPutBounded(q) == Len(q) < 1

\* Queue.put blocks only when maxsize > 0 and the queue is full.
CanPut(q) == ResQueueMaxsize = 0 \/ Len(q) < ResQueueMaxsize

\* ----------------------------------------------------- listener (server.py)
\* serve_forever takes the next request only while it is bound and no
\* shutdown was requested; one request is handled at a time.
\* A listener that hands each request to a thread of its own.
ListenerAlwaysFree(l) == TRUE

\* socketserver.TCPServer handles the requests one after the other on the
\* thread inside serve_forever: the next is accepted when do_POST returned.
ListenerFree(l) == l = "idle"

ListenerReady ==
  /\ servingThreads > 0
  /\ hpc \notin {"shutdown", "unregistering"}
  /\ ListenerFree(lpc)
  /\ requestsLeft > 0

\* The /run rule applied to every Result.
StatusCodeBySuccess(type, result) ==
  IF result.status = "success" THEN 200 ELSE 500

\* Every Result is answered 200, as on /view.
StatusCodeAlways200(type, result) == 200

\* status_code of the HTTP answer that carries a Result.
StatusCode(type, result) ==
  IF type = "code"
  THEN (IF result.status = "success" THEN 200 ELSE 500)
  ELSE 200

\* Only json.loads is guarded: a JSON value of any type passes on /run.
DecodableAnyJson(path, body) == body # "invalid"

\* The statements before the path test and, on /run, data.get go through:
\* json.loads(post_data) does not raise, and on /run the value is a dict.
Decodable(path, body) ==
  /\ body # "invalid"
  /\ path = "/run" => body = "object"

\* The host thread is inside the body of process_queue's while loop: the
\* tick has found a Task in the queue and has not finished its handler.
InTick == hpc \in {"get", "exec", "logging", "blocked"}

\* do_POST, body cannot be used: json.loads raises, or for /run data.get
\* raises on a JSON value that is not a dict.  The outer except answers 500.
DoPostMalformed ==
  /\ ListenerReady
  /\ \E path \in Paths, body \in Bodies :
       /\ ~Decodable(path, body)
       /\ request' = [request EXCEPT ![nextId] = [path |-> path, body |-> body]]
       /\ responses' = [responses EXCEPT
                          ![nextId] = Append(@, Response(500, BodyServerError))]
  /\ nextId' = nextId + 1
  /\ requestsLeft' = requestsLeft - 1
  /\ lastOp' = AfterStep(lastOp)
  /\ UNCHANGED session
  /\ UNCHANGED streamVars
  /\ UNCHANGED globalsVars
  /\ UNCHANGED agentVars
  /\ UNCHANGED <<execution_queue, task, response_queue, lpc, lreq, coQueued,
                 enqueuedInTick>>
  /\ UNCHANGED <<hostVars, sceneVars, ghostVars, lifeVars>>

\* do_POST, path /run: put the code Task, then block in res_q.get(timeout).
DoPostRun ==
  /\ ListenerReady
  /\ \E body \in Bodies, content \in CodeKinds :
       /\ Decodable("/run", body)
       /\ request' = [request EXCEPT ![nextId] = [path |-> "/run", body |-> body]]
       /\ task' = [task EXCEPT
                     ![nextId] = [type |-> "code", content |-> content]]
  /\ execution_queue' = QPut(execution_queue, nextId)
  /\ coQueued' = coQueued \cup
        {<<execution_queue[i], nextId>> : i \in 1..Len(execution_queue)}
  /\ enqueuedInTick' = IF InTick THEN enqueuedInTick \cup {nextId}
                       ELSE enqueuedInTick
  /\ lpc' = "wait"
  /\ lreq' = nextId
  /\ nextId' = nextId + 1
  /\ requestsLeft' = requestsLeft - 1
  /\ lastOp' = AfterStep(lastOp)
  /\ UNCHANGED session
  /\ UNCHANGED streamVars
  /\ UNCHANGED globalsVars
  /\ UNCHANGED agentVars
  /\ UNCHANGED <<response_queue, responses>>
  /\ UNCHANGED <<hostVars, sceneVars, ghostVars, lifeVars>>

\* do_POST, path /view: put the view Task, then block in res_q.get(timeout).
\* The decoded body is not looked at, so any valid JSON is accepted.
DoPostView ==
  /\ ListenerReady
  /\ \E body \in Bodies :
       /\ Decodable("/view", body)
       /\ request' = [request EXCEPT
                        ![nextId] = [path |-> "/view", body |-> body]]
       /\ task' = [task EXCEPT ![nextId] = [type |-> "view", content |-> "-"]]
  /\ execution_queue' = QPut(execution_queue, nextId)
  /\ coQueued' = coQueued \cup
        {<<execution_queue[i], nextId>> : i \in 1..Len(execution_queue)}
  /\ enqueuedInTick' = IF InTick THEN enqueuedInTick \cup {nextId}
                       ELSE enqueuedInTick
  /\ lpc' = "wait"
  /\ lreq' = nextId
  /\ nextId' = nextId + 1
  /\ requestsLeft' = requestsLeft - 1
  /\ lastOp' = AfterStep(lastOp)
  /\ UNCHANGED session
  /\ UNCHANGED streamVars
  /\ UNCHANGED globalsVars
  /\ UNCHANGED agentVars
  /\ UNCHANGED <<response_queue, responses>>
  /\ UNCHANGED <<hostVars, sceneVars, ghostVars, lifeVars>>

\* do_POST, any other path with a decodable body: 404.
DoPostNotFound ==
  /\ ListenerReady
  /\ \E body \in Bodies :
       /\ Decodable("/other", body)
       /\ request' = [request EXCEPT
                        ![nextId] = [path |-> "/other", body |-> body]]
       /\ responses' = [responses EXCEPT
                          ![nextId] = Append(@, Response(404, BodyNotFound))]
  /\ nextId' = nextId + 1
  /\ requestsLeft' = requestsLeft - 1
  /\ lastOp' = AfterStep(lastOp)
  /\ UNCHANGED session
  /\ UNCHANGED streamVars
  /\ UNCHANGED globalsVars
  /\ UNCHANGED agentVars
  /\ UNCHANGED <<execution_queue, task, response_queue, lpc, lreq, coQueued,
                 enqueuedInTick>>
  /\ UNCHANGED <<hostVars, sceneVars, ghostVars, lifeVars>>

\* A get() with no timeout never raises queue.Empty.
RaisesEmptyNever(q) == FALSE

\* res_q.get(timeout=30) raises queue.Empty when the time is over and the
\* queue is still empty.
RaisesEmpty(q) == QEmpty(q)

\* res_q.get(timeout=30) returns a Result: answer with it.
WaitResult ==
  /\ lpc = "wait"
  /\ ~QEmpty(response_queue[ChannelOf(lreq)])
  /\ LET result == QGetItem(response_queue[ChannelOf(lreq)])
     IN  responses' = [responses EXCEPT ![lreq] =
            Append(@, Response(StatusCode(task[lreq].type, result), result))]
  /\ response_queue' = [response_queue EXCEPT
                          ![ChannelOf(lreq)] = QGetRest(@)]
  /\ lpc' = "idle"
  /\ lreq' = NoTask
  /\ lastOp' = AfterStep(lastOp)
  /\ UNCHANGED session
  /\ UNCHANGED streamVars
  /\ UNCHANGED globalsVars
  /\ UNCHANGED agentVars
  /\ UNCHANGED <<execution_queue, task, nextId, requestsLeft, request,
                 coQueued, enqueuedInTick>>
  /\ UNCHANGED <<hostVars, sceneVars, ghostVars, lifeVars>>

\* A listener that takes the Task of a caller that timed out back from the
\* queue.
QueueAfterTimeoutCancels(q, id) == SelectSeq(q, LAMBDA x : x # id)

\* The except queue.Empty branch only sends the 504: the Task stays where
\* it is, and process_queue is the only consumer of the queue.
QueueAfterTimeout(q, id) == q

\* res_q.get(timeout=30) raises queue.Empty: the 30 seconds passed with the
\* queue still empty.  Answer 504; nothing else is touched.
WaitTimeout ==
  /\ lpc = "wait"
  /\ RaisesEmpty(response_queue[ChannelOf(lreq)])
  /\ responses' = [responses EXCEPT
                     ![lreq] = Append(@, Response(504, BodyTimeout))]
  /\ execution_queue' = QueueAfterTimeout(execution_queue, lreq)
  /\ lpc' = "idle"
  /\ lreq' = NoTask
  /\ lastOp' = AfterStep(lastOp)
  /\ UNCHANGED session
  /\ UNCHANGED streamVars
  /\ UNCHANGED globalsVars
  /\ UNCHANGED agentVars
  /\ UNCHANGED <<task, response_queue, nextId, requestsLeft,
                 request, coQueued,
                 enqueuedInTick>>
  /\ UNCHANGED <<hostVars, sceneVars, ghostVars, lifeVars>>

\* --------------------------- operators (operators.py, __init__.py)
\* start_server: keeps an existing httpd, else binds (OSError leaves None).
HttpdAfterStart(h, portFree) == IF h THEN h ELSE portFree

\* start_server / start_server_thread create a TCPServer: only when httpd
\* is None, and the bind succeeds only when the port can be bound.
Binds(h, portFree) == ~h /\ portFree

\* A registration without the is_registered test.
RegistersAlways(reg) == TRUE

\* The operator registers process_queue only if it is not registered.
Registers(reg) == ~reg

\* __init__.py Start: a listener thread is started only if none is alive.
StartsThread(live) == live = 0

\* bpy.app.timers.register / unregister behind their is_registered tests.
TimerAfterRegister == IF Registers(timerRegistered) THEN timerRegs + 1
                      ELSE timerRegs
TimerAfterUnregister == IF timerRegistered THEN timerRegs - 1 ELSE timerRegs

\* operators.py OBJECT_OT_StartServer.execute: start_server() binds and
\* starts the listener thread unless httpd is set, then the timer is
\* registered unless it is registered already.
StartServer ==
  /\ registered
  /\ variant = "modules"
  /\ hpc = "idle"
  /\ \E portFree \in BOOLEAN :
       /\ httpd' = HttpdAfterStart(httpd, portFree)
       /\ boundSockets' = IF Binds(httpd, portFree) THEN boundSockets + 1
                          ELSE boundSockets
       /\ servingThreads' = IF Binds(httpd, portFree) THEN servingThreads + 1
                            ELSE servingThreads
  /\ timerRegs' = TimerAfterRegister
  /\ lastOp' = AfterStart(lastOp)
  /\ session' = SessionAfterStart(session, nextId)
  /\ UNCHANGED streamVars
  /\ UNCHANGED globalsVars
  /\ UNCHANGED agentVars
  /\ UNCHANGED <<variant, registered, pendingThreads, execution_queue, task, coQueued,
                 enqueuedInTick>>
  /\ UNCHANGED <<netVars, hostVars, sceneVars, ghostVars>>

\* __init__.py OBJECT_OT_StartServer.execute: CANCELLED when the listener
\* thread is alive; else a thread running start_server_thread is started
\* and the timer is registered unless it is registered already.
StartServerSingle ==
  /\ registered
  /\ variant = "single"
  /\ hpc = "idle"
  /\ IF StartsThread(LiveThreads)
     THEN /\ pendingThreads' = pendingThreads + 1
          /\ timerRegs' = TimerAfterRegister
     ELSE UNCHANGED <<pendingThreads, timerRegs>>
  /\ lastOp' = AfterStart(lastOp)
  /\ session' = SessionAfterStart(session, nextId)
  /\ UNCHANGED streamVars
  /\ UNCHANGED globalsVars
  /\ UNCHANGED agentVars
  /\ UNCHANGED <<variant, registered, httpd, boundSockets, servingThreads,
                 execution_queue, task, coQueued,
                 enqueuedInTick>>
  /\ UNCHANGED <<netVars, hostVars, sceneVars, ghostVars>>

\* __init__.py start_server_thread, run by the thread Start created:
\* returns at once when httpd is set; else binds and serves, or on OSError
\* sets httpd = None and ends.
StartServerThread ==
  /\ pendingThreads > 0
  /\ pendingThreads' = pendingThreads - 1
  /\ \E portFree \in BOOLEAN :
       /\ httpd' = HttpdAfterStart(httpd, portFree)
       /\ boundSockets' = IF Binds(httpd, portFree) THEN boundSockets + 1
                          ELSE boundSockets
       /\ servingThreads' = IF Binds(httpd, portFree) THEN servingThreads + 1
                            ELSE servingThreads
  /\ lastOp' = AfterStep(lastOp)
  /\ UNCHANGED session
  /\ UNCHANGED streamVars
  /\ UNCHANGED globalsVars
  /\ UNCHANGED agentVars
  /\ UNCHANGED <<variant, registered, timerRegs, execution_queue, task, coQueued,
                 enqueuedInTick>>
  /\ UNCHANGED <<netVars, hostVars, sceneVars, ghostVars>>

\* OBJECT_OT_StopServer.execute while httpd is None.  operators.py:
\* stop_server does nothing, then the timer is unregistered if it is
\* registered.  __init__.py: nothing is done.
StopNotRunning ==
  /\ registered
  /\ hpc = "idle"
  /\ ~httpd
  /\ timerRegs' = IF variant = "modules" THEN TimerAfterUnregister
                  ELSE timerRegs
  /\ lastOp' = AfterStop(lastOp)
  /\ session' = SessionAfterStop(session)
  /\ UNCHANGED streamVars
  /\ UNCHANGED globalsVars
  /\ UNCHANGED agentVars
  /\ UNCHANGED <<variant, registered, httpd, boundSockets, pendingThreads, servingThreads,
                 execution_queue, task, coQueued,
                 enqueuedInTick>>
  /\ UNCHANGED <<netVars, hostVars, sceneVars, ghostVars>>

\* OBJECT_OT_StopServer.execute, httpd set: httpd.shutdown() asks
\* serve_forever to stop and blocks the host thread until it has.
StopBegin ==
  /\ registered
  /\ hpc = "idle"
  /\ httpd
  /\ hpc' = "shutdown"
  /\ lastOp' = AfterStep(lastOp)
  /\ UNCHANGED session
  /\ UNCHANGED streamVars
  /\ UNCHANGED globalsVars
  /\ UNCHANGED agentVars
  /\ UNCHANGED <<cur, tickResult, execution_queue, task, coQueued,
                 enqueuedInTick>>
  /\ UNCHANGED <<netVars, sceneVars, ghostVars, lifeVars>>

\* httpd.shutdown() ends the thread inside serve_forever, if there is one,
\* and httpd.server_close() closes the socket, if it is not closed yet.
AfterShutdown(serving) == IF serving > 0 THEN serving - 1 ELSE 0
AfterServerClose(bound) == IF bound > 0 THEN bound - 1 ELSE 0

\* A shutdown() that returns without waiting for serve_forever.
ShutdownReturnsAtOnce(l) == TRUE

\* httpd.shutdown() returns when serve_forever has left its loop, which it
\* does between two requests: not while do_POST is handling one.
ShutdownReturns(l) == l = "idle"

\* serve_forever has returned (no request in progress) and its thread ends:
\* server_close(), httpd = None, then the timer is unregistered if it is
\* registered.
StopEnd ==
  /\ hpc = "shutdown"
  /\ ShutdownReturns(lpc)
  /\ httpd' = FALSE
  /\ boundSockets' = AfterServerClose(boundSockets)
  /\ servingThreads' = AfterShutdown(servingThreads)
  /\ timerRegs' = TimerAfterUnregister
  /\ lastOp' = AfterStop(lastOp)
  /\ session' = SessionAfterStop(session)
  /\ UNCHANGED streamVars
  /\ UNCHANGED globalsVars
  /\ UNCHANGED agentVars
  /\ hpc' = "idle"
  /\ UNCHANGED <<variant, registered, pendingThreads, cur, tickResult, execution_queue,
                 task, coQueued,
                 enqueuedInTick>>
  /\ UNCHANGED <<netVars, sceneVars, ghostVars>>

\* __init__.py unregister() closes the server and leaves the global httpd
\* as it is.
HttpdAfterUnregister(h) == h

\* unregister() of the add-on.  operators.py: the operator classes are
\* unregistered, nothing else.  __init__.py: the same, then with httpd set
\* httpd.shutdown(), which blocks the host thread until serve_forever has
\* returned.
AddonUnregister ==
  /\ registered
  /\ hpc = "idle"
  /\ registered' = FALSE
  /\ hpc' = IF variant = "single" /\ httpd THEN "unregistering" ELSE "idle"
  /\ lastOp' = AfterStep(lastOp)
  /\ UNCHANGED session
  /\ UNCHANGED streamVars
  /\ UNCHANGED globalsVars
  /\ UNCHANGED agentVars
  /\ UNCHANGED <<variant, httpd, boundSockets, pendingThreads,
                 servingThreads, timerRegs, cur, tickResult,
                 execution_queue, task, coQueued, enqueuedInTick>>
  /\ UNCHANGED <<netVars, sceneVars, ghostVars>>

\* __init__.py unregister(), httpd set: shutdown() has returned, then
\* httpd.server_close().  The timer stays registered.
AddonUnregisterEnd ==
  /\ hpc = "unregistering"
  /\ ShutdownReturns(lpc)
  /\ httpd' = HttpdAfterUnregister(httpd)
  /\ boundSockets' = AfterServerClose(boundSockets)
  /\ servingThreads' = AfterShutdown(servingThreads)
  /\ hpc' = "idle"
  /\ lastOp' = AfterStep(lastOp)
  /\ UNCHANGED session
  /\ UNCHANGED streamVars
  /\ UNCHANGED globalsVars
  /\ UNCHANGED agentVars
  /\ UNCHANGED <<variant, registered, pendingThreads, timerRegs, cur,
                 tickResult, execution_queue, task, coQueued,
                 enqueuedInTick>>
  /\ UNCHANGED <<netVars, sceneVars, ghostVars>>

\* register() of the add-on: the operator classes are registered again.
AddonRegister ==
  /\ ~registered
  /\ hpc = "idle"
  /\ registered' = TRUE
  /\ lastOp' = AfterStep(lastOp)
  /\ UNCHANGED session
  /\ UNCHANGED streamVars
  /\ UNCHANGED globalsVars
  /\ UNCHANGED agentVars
  /\ UNCHANGED <<variant, httpd, boundSockets, pendingThreads,
                 servingThreads, timerRegs, execution_queue, task, coQueued,
                 enqueuedInTick>>
  /\ UNCHANGED <<netVars, hostVars, sceneVars, ghostVars>>


\* --------------------------------------------- process_queue (engine.py)
\* The handler is handed to a worker and still runs when the loop goes on.
EndExecDetached(run, id) == run

\* The handler of Task id starts / stops running on the host thread.
BeginExec(run, id) == run \cup {id}
EndExec(run, id) == run \ {id}

\* task['response_queue'].put(res)
PutResult(rq, id, res) == [rq EXCEPT ![ChannelOf(id)] = QPut(@, res)]

\* The handler of cur is over (the finally clause has run for a code Task).
EndHandler ==
  /\ running' = EndExec(running, cur)
  /\ finished' = finished \cup {cur}
  /\ cur' = NoTask

\* Control goes back to the while test.
BackToLoop ==
  /\ hpc' = "loop"
  /\ UNCHANGED <<tickResult, timerRegs, enqueuedInTick>>

\* An exception leaves process_queue.  bpy.app.timers drops a timer whose
\* function raised, so the callback is not called again until it is
\* registered again.
Escape ==
  /\ hpc' = "idle"
  /\ tickResult' = "raised"
  /\ enqueuedInTick' = {}
  /\ timerRegs' = timerRegs - 1

\* put(res) on the response queue of cur, then go on with `next`; a put on
\* a full bounded queue would leave the host thread blocked inside put.
Deliver(res, next) ==
  IF CanPut(response_queue[ChannelOf(cur)])
  THEN /\ response_queue' = PutResult(response_queue, cur, res)
       /\ putCount' = [putCount EXCEPT ![ChannelOf(cur)] = @ + 1]
       /\ next
  ELSE /\ hpc' = "blocked"
       /\ UNCHANGED <<response_queue, putCount, running, finished, cur,
                      tickResult, timerRegs, enqueuedInTick>>

\* bpy.app.timers calls process_queue on the host thread.
TickBegin ==
  /\ timerRegistered
  /\ hpc = "idle"
  /\ hpc' = "loop"
  /\ tickResult' = "running"
  /\ lastOp' = AfterStep(lastOp)
  /\ UNCHANGED session
  /\ UNCHANGED streamVars
  /\ UNCHANGED globalsVars
  /\ UNCHANGED agentVars
  /\ UNCHANGED <<cur, execution_queue, task, coQueued,
                 enqueuedInTick>>
  /\ UNCHANGED <<netVars, sceneVars, ghostVars, lifeVars>>

\* while not execution_queue.empty(): queue is empty, return 0.1.
TickReturn ==
  /\ hpc = "loop"
  /\ QEmpty(execution_queue)
  /\ hpc' = "idle"
  /\ tickResult' = "0.1"
  /\ enqueuedInTick' = {}
  /\ lastOp' = AfterStep(lastOp)
  /\ UNCHANGED session
  /\ UNCHANGED streamVars
  /\ UNCHANGED globalsVars
  /\ UNCHANGED agentVars
  /\ UNCHANGED <<cur, execution_queue, task, coQueued>>
  /\ UNCHANGED <<netVars, sceneVars, ghostVars, lifeVars>>

\* while not execution_queue.empty(): queue is not empty, enter the body.
TickTest ==
  /\ hpc = "loop"
  /\ ~QEmpty(execution_queue)
  /\ hpc' = "get"
  /\ lastOp' = AfterStep(lastOp)
  /\ UNCHANGED session
  /\ UNCHANGED streamVars
  /\ UNCHANGED globalsVars
  /\ UNCHANGED agentVars
  /\ UNCHANGED <<cur, tickResult, execution_queue, task, coQueued,
                 enqueuedInTick>>
  /\ UNCHANGED <<netVars, sceneVars, ghostVars, lifeVars>>

\* task = execution_queue.get(): blocks while the queue is empty.
TickGet ==
  /\ hpc = "get"
  /\ ~QEmpty(execution_queue)
  /\ cur' = QGetItem(execution_queue)
  /\ execution_queue' = QGetRest(execution_queue)
  /\ execCount' = [execCount EXCEPT ![QGetItem(execution_queue)] = @ + 1]
  /\ running' = BeginExec(running, QGetItem(execution_queue))
  /\ hpc' = "exec"
  /\ lastOp' = AfterStep(lastOp)
  /\ UNCHANGED session
  /\ UNCHANGED streamVars
  /\ UNCHANGED globalsVars
  /\ UNCHANGED agentVars
  /\ UNCHANGED <<tickResult, task, coQueued, enqueuedInTick, finished,
                 putCount>>
  /\ UNCHANGED <<netVars, sceneVars, lifeVars>>

\* A handler without the finally clause: the streams stay as they are.
AfterFinallyKeeps(original, now) == now

\* finally: sys.stdout = original_stdout; sys.stderr = original_stderr
AfterFinally(original, now) == original

\* Code Task, lines 39-66 up to the first put or the escape: redirect the
\* streams, exec the content against host state, then
\*   returns:      getvalue(), put the success Result (logging follows);
\*   raises:       except: put the error Result, print; finally;
\*   raisesBase:   `except Exception` does not match; finally; the
\*                 exception leaves process_queue with no put made;
\*   closesStdout: getvalue() raises ValueError; except: put the error
\*                 Result; print on the closed capture raises; finally;
\*                 that exception leaves process_queue.
ExecCode ==
  /\ hpc = "exec"
  /\ task[cur].type = "code"
  /\ hostLog' = Append(hostLog, cur)
  /\ \E cam \in BOOLEAN : camera' = cam
  /\ LET kind == task[cur].content
     IN  CASE kind = "returns" ->
                Deliver(SuccessOutput(cur),
                        /\ hpc' = "logging"
                        /\ UNCHANGED <<running, finished, cur, tickResult,
                                       timerRegs, enqueuedInTick>>)
           [] kind = "raises" ->
                Deliver(ErrorTraceback(cur, RaisedType(kind)),
                        EndHandler /\ BackToLoop)
           [] kind = "raisesBase" ->
                /\ EndHandler
                /\ Escape
                /\ UNCHANGED <<response_queue, putCount>>
           [] kind = "closesStdout" ->
                Deliver(ErrorTraceback(cur, "ValueError"),
                        EndHandler /\ Escape)
  /\ LET original_stdout == sys_stdout
         original_stderr == sys_stderr
     IN  IF cur' = cur
         THEN \* still inside the try statement
              /\ sys_stdout' = CaptureStream("stdout")
              /\ sys_stderr' = CaptureStream("stderr")
         ELSE /\ sys_stdout' =
                   AfterFinally(original_stdout, CaptureStream("stdout"))
              /\ sys_stderr' =
                   AfterFinally(original_stderr, CaptureStream("stderr"))
  /\ LET ns == BoundByExec(GlobalsCopy(module_globals),
                           task[cur].content, cur)
     IN  /\ exec_globals' = ns
         /\ module_globals' = GlobalsAfterExec(module_globals, ns)
  /\ UNCHANGED agentVars
  /\ lastOp' = AfterStep(lastOp)
  /\ UNCHANGED session
  /\ UNCHANGED <<outFile, renderSettings, rendered>>
  /\ UNCHANGED <<bindVars, execution_queue, task, responses, nextId,
                 requestsLeft, request, lpc, lreq, execCount, coQueued>>

\* Code Task after the success put, lines 56-57 and 59-66:
\* sys.__stdout__.write(output) and print.  When the write raises
\* (sys.__stdout__ is None, or cannot encode the output) the except clause
\* runs and puts an error Result on the same response queue.
LogOutput ==
  /\ hpc = "logging"
  /\ \E writeOk \in BOOLEAN :
       IF writeOk
       THEN /\ EndHandler
            /\ BackToLoop
            /\ UNCHANGED <<response_queue, putCount>>
       ELSE Deliver(ErrorTraceback(cur, "AttributeError"),
                    EndHandler /\ BackToLoop)
  /\ IF cur' = cur
     THEN UNCHANGED streamVars
     ELSE \* original_stdout and original_stderr were saved by ExecCode
          /\ sys_stdout' = AfterFinally(HostStream("stdout"), sys_stdout)
          /\ sys_stderr' = AfterFinally(HostStream("stderr"), sys_stderr)
  /\ UNCHANGED globalsVars
  /\ UNCHANGED agentVars
  /\ lastOp' = AfterStep(lastOp)
  /\ UNCHANGED session
  /\ UNCHANGED <<sceneVars>>
  /\ UNCHANGED <<bindVars, execution_queue, task, responses, nextId,
                 requestsLeft, request, lpc, lreq, execCount, coQueued>>

\* A handler that leaves the old output file where it is.
AfterRemoveKeeps(file) == file

\* if os.path.exists(expected_path): os.remove(expected_path)
AfterRemove(file) == NoFile

\* The output file after bpy.ops.render.render(write_still=True): the file
\* this render wrote, or what was there when the render wrote none.
AfterRender(file, outcome, id) == IF outcome = "file" THEN id ELSE file

\* A handler that goes on to the render without looking at the camera.
CameraIgnored(cam) == FALSE

\* if not bpy.context.scene.camera
CameraMissing(cam) == ~cam

\* View Task, lines 69-100: remove the old output file, test the camera,
\* configure the render, render, read the file back.  Every exception is
\* caught by `except Exception` and answered with str(e).
ExecView ==
  /\ hpc = "exec"
  /\ task[cur].type = "view"
  /\ hostLog' = Append(hostLog, cur)
  /\ lastOp' = AfterStep(lastOp)
  /\ UNCHANGED session
  /\ UNCHANGED streamVars
  /\ UNCHANGED globalsVars
  /\ UNCHANGED agentVars
  /\ UNCHANGED camera
  /\ \E removeOk \in BOOLEAN, outcome \in RenderOutcomes :
       LET removed == AfterRemove(outFile)
           written == AfterRender(removed, outcome, cur)
       IN  IF outFile # NoFile /\ ~removeOk
           THEN \* os.remove raises OSError
                /\ UNCHANGED <<outFile, renderSettings, rendered>>
                /\ Deliver(ErrorStr(cur), EndHandler /\ BackToLoop)
           ELSE IF CameraMissing(camera)
           THEN /\ outFile' = removed
                /\ UNCHANGED <<renderSettings, rendered>>
                /\ Deliver(ErrorNoCamera(cur), EndHandler /\ BackToLoop)
           ELSE /\ renderSettings' = "agent"
                /\ rendered' = rendered \cup {cur}
                /\ outFile' = written
                /\ IF outcome = "raises"
                   THEN Deliver(ErrorStr(cur), EndHandler /\ BackToLoop)
                   ELSE IF written # NoFile
                   THEN Deliver(SuccessImage(cur, written),
                                EndHandler /\ BackToLoop)
                   ELSE Deliver(ErrorNoFile(cur), EndHandler /\ BackToLoop)
  /\ UNCHANGED <<bindVars, execution_queue, task, responses, nextId,
                 requestsLeft, request, lpc, lreq, execCount, coQueued>>

Next ==
  \/ DoPostMalformed
  \/ DoPostRun
  \/ DoPostView
  \/ DoPostNotFound
  \/ WaitResult
  \/ WaitTimeout
  \/ StartServer
  \/ StopNotRunning
  \/ StopBegin
  \/ StopEnd
  \/ TickBegin
  \/ TickReturn
  \/ TickTest
  \/ TickGet
  \/ ExecCode
  \/ LogOutput
  \/ ExecView

\* The bridge run from the package modules.
Spec == Init /\ [][Next]_vars

\* Either copy of the operators: the single-file copy's Start and its
\* listener thread come on top.
NextLifecycle ==
  \/ Next
  \/ StartServerSingle
  \/ StartServerThread

LifecycleSpec == InitLifecycle /\ [][NextLifecycle]_vars

\* The add-on is also unregistered and registered again while Blender runs.
NextAddon ==
  \/ NextLifecycle
  \/ AddonUnregister
  \/ AddonUnregisterEnd
  \/ AddonRegister

AddonSpec == InitLifecycle /\ [][NextAddon]_vars

\* The listener thread is scheduled: a get() that can return does return,
\* and the 30 seconds of its timeout do pass.  Nothing is assumed about the
\* host thread: Blender may never call the timer again, and the user may
\* never invoke an operator.
FairSpec ==
  /\ LifecycleSpec
  /\ WF_vars(WaitResult)
  /\ WF_vars(WaitTimeout)

\* The host thread runs: once process_queue was called, each statement of
\* it is executed and the submitted code and the render come to an end.
\* Whether the timer calls process_queue at all, and whether an operator is
\* invoked, is left open.
TickFairSpec ==
  /\ LifecycleSpec
  /\ WF_vars(TickTest)
  /\ WF_vars(TickGet)
  /\ WF_vars(ExecCode)
  /\ WF_vars(LogOutput)
  /\ WF_vars(ExecView)
  /\ WF_vars(TickReturn)

\* The listener's wait ends as in FairSpec, and the host thread goes on
\* with Stop once httpd.shutdown() can return.
StopFairSpec ==
  /\ FairSpec
  /\ WF_vars(StopEnd)

\* ------------------------------------ BlenderClient (blender_client.py)
\* _send_json writes json.dumps(data); response.json() parses the text and
\* raises when it is not JSON.
JsonDumps(data) == <<"json", data>>
IsJson(text) == text[1] = "json"
ResponseJson(text) == text[2]

\* What requests.post gives: a response, or an exception.
HttpResponse(code, text) == [kind |-> "response", code |-> code, text |-> text]
HttpFailure(exc) == [kind |-> exc]

\* The answers of the bridge on a path, as do_POST sends them: a Result
\* with the status code of its path, or a body of the listener's own.
ServerResults(path) ==
  IF path = "/run"
  THEN {SuccessOutput(1), ErrorTraceback(1, "ValueError")}
  ELSE {SuccessImage(1, 1), ErrorNoCamera(1), ErrorNoFile(1), ErrorStr(1)}
ServerResponses(path) ==
  {HttpResponse(StatusCode(IF path = "/run" THEN "code" ELSE "view", r),
                JsonDumps(r)) : r \in ServerResults(path)}
  \cup {HttpResponse(504, JsonDumps(BodyTimeout)),
        HttpResponse(500, JsonDumps(BodyServerError)),
        HttpResponse(404, JsonDumps(BodyNotFound))}

\* Everything requests.post can give the client: an answer of the bridge,
\* an answer of something else on that port, or an exception.
HttpOutcomes(path) ==
  ServerResponses(path)
  \cup {HttpResponse(200, <<"html">>), HttpResponse(502, <<"html">>)}
  \cup {HttpFailure("ConnectionError"), HttpFailure("Exception")}

ErrorDict(msg) == [status |-> "error", message |-> msg]
\* The method did not return: its exception went to the caller.
Raised == [status |-> "raised"]

\* A method without the try statement.
ExceptClauseMissing(msg) == Raised

\* except ...: return {"status": "error", "message": ...}
ExceptClause(msg) == ErrorDict(msg)

\* The body of both methods, lines 12-23 and 29-40: they differ in the
\* path and in the text of the 504 message.
ClientReturn(path, o) ==
  IF o.kind = "ConnectionError"
  THEN ExceptClause(<<"Connection refused. Is the Blender server running?">>)
  ELSE IF o.kind # "response" THEN ExceptClause(<<"str(e)">>)
  ELSE IF o.code = 200
  THEN (IF IsJson(o.text) THEN ResponseJson(o.text)
        ELSE ExceptClause(<<"str(e)">>))
  ELSE IF o.code = 504
  THEN ErrorDict(IF path = "/run"
                 THEN <<"Timeout: Blender took too long to execute.">>
                 ELSE <<"Timeout: Rendering took too long.">>)
  ELSE ErrorDict(<<"HTTP", o.code, o.text>>)

execute_script(o) == ClientReturn("/run", o)
get_screenshot(o) == ClientReturn("/view", o)

\* ------------------------- the agent (app.py, agent.py, agent_client.py)
AgentCodes == {"app", "agent_client"}
Tools == {"run_blender_script", "get_viewport_screenshot", "other_tool"}

\* A model response, as the loop sees it: the names of its function_call
\* parts, in order; <<>> is a response with text only.
AllResponses == UNION {[1..k -> Tools] : k \in 0..MaxCallsPerResponse}

\* A limit test that lets one more turn through.
LimitReachedLate(count, limit) == count > limit + 1

\* if turn_count > max_turns / if current_loop > MAX_LOOP_COUNT
LimitReached(count, limit) == count > limit

\* The branch for this tool sends a function response to the model.
\* app.py answers every call; agent_client.py answers run_blender_script
\* only.
Sends(code, fname) == code = "app" \/ fname = "run_blender_script"

\* The branch calls a BlenderClient method.
UsesClient(code, fname) ==
  code = "app" /\ fname \in {"run_blender_script", "get_viewport_screenshot"}

\* The user enters a prompt: the counter is reset and the prompt is sent;
\* send_message returns the model's response or raises (caught by the
\* except clause around the loop).
AgentPrompt ==
  /\ apc = "input"
  /\ turn_count' = 0
  /\ turnsProcessed' = 0
  /\ pending' = <<>>
  /\ http' = NoHttp
  /\ toolResult' = NoReturn
  /\ \E raised \in BOOLEAN, next \in AllResponses :
       IF raised
       THEN UNCHANGED <<apc, response>>
       ELSE apc' = "while" /\ response' = next
  /\ UNCHANGED <<agentCode, max_turns>>
  /\ UNCHANGED bridgeVars

\* The while test, the increment and the limit test: app.py 266-271,
\* agent_client.py 163-170.  At the limit agent_client.py sends a notice to
\* the model before the break.
AgentWhile ==
  /\ apc = "while"
  /\ UNCHANGED <<http, toolResult>>
  /\ IF response = <<>>
     THEN /\ apc' = "input"
          /\ UNCHANGED <<turn_count, response, pending, turnsProcessed>>
     ELSE /\ turn_count' = turn_count + 1
          /\ IF LimitReached(turn_count + 1, max_turns)
             THEN /\ apc' = "input"
                  /\ \E raised \in BOOLEAN, next \in AllResponses :
                       response' = IF agentCode = "agent_client" /\ ~raised
                                   THEN next ELSE response
                  /\ UNCHANGED <<pending, turnsProcessed>>
             ELSE /\ apc' = "turn"
                  /\ pending' = response
                  /\ turnsProcessed' = turnsProcessed + 1
                  /\ UNCHANGED response
  /\ UNCHANGED <<agentCode, max_turns>>
  /\ UNCHANGED bridgeVars

\* One function_call part of the turn is handled, first half: agent.py
\* 141-160 with the handlers it calls, agent_client.py 181-205.  The tool
\* is called; app.py calls the bridge through BlenderClient.
AgentCallTool ==
  /\ apc = "turn"
  /\ pending # <<>>
  /\ LET fname == Head(pending)
     IN  IF UsesClient(agentCode, fname)
         THEN \E o \in HttpOutcomes(IF fname = "run_blender_script"
                                     THEN "/run" ELSE "/view") :
                LET ret == IF fname = "run_blender_script"
                           THEN execute_script(o) ELSE get_screenshot(o)
                IN  /\ http' = o
                    /\ toolResult' = ret
                    /\ IF ret = Raised
                       THEN apc' = "input" /\ pending' = <<>>
                       ELSE apc' = "send" /\ UNCHANGED pending
         ELSE /\ apc' = "send"
              /\ UNCHANGED <<http, toolResult, pending>>
  /\ UNCHANGED <<agentCode, max_turns, turn_count, response,
                 turnsProcessed>>
  /\ UNCHANGED bridgeVars

\* Second half: where the branch sends a function response, the model's
\* answer becomes `response`; an exception (from send_message, or from
\* decoding the image) ends the handling of the prompt.  Then the for
\* loop goes on with the next part.
AgentSend ==
  /\ apc = "send"
  /\ http' = NoHttp
  /\ toolResult' = NoReturn
  /\ IF Sends(agentCode, Head(pending))
     THEN \E raised \in BOOLEAN, next \in AllResponses :
            IF raised
            THEN /\ apc' = "input"
                 /\ pending' = <<>>
                 /\ UNCHANGED response
            ELSE /\ response' = next
                 /\ pending' = Tail(pending)
                 /\ apc' = IF Tail(pending) = <<>> THEN "while" ELSE "turn"
     ELSE /\ UNCHANGED response
          /\ pending' = Tail(pending)
          /\ apc' = IF Tail(pending) = <<>> THEN "while" ELSE "turn"
  /\ UNCHANGED <<agentCode, max_turns, turn_count,
                 turnsProcessed>>
  /\ UNCHANGED bridgeVars

\* The agent alone, with every answer the model and the bridge can give.
InitAgent ==
  /\ Loaded
  /\ variant = "modules"
  /\ requestsLeft = 0
  /\ lastOp = NotRecorded
  /\ session = [stopped |-> TRUE, mark |-> NoSession]
  /\ agentCode \in AgentCodes
  /\ max_turns \in 1..MaxTurnsSetting
  /\ apc = "input"
  /\ turn_count = 0
  /\ response = <<>>
  /\ pending = <<>>
  /\ turnsProcessed = 0
  /\ http = NoHttp
  /\ toolResult = NoReturn

NextAgent ==
  \/ AgentPrompt
  \/ AgentWhile
  \/ AgentCallTool
  \/ AgentSend

AgentSpec == InitAgent /\ [][NextAgent]_vars

\* The agent program runs: the loop goes on once a prompt was sent, and
\* each call to the model and to the bridge returns or raises.
AgentFairSpec ==
  /\ AgentSpec
  /\ WF_vars(AgentWhile)
  /\ WF_vars(AgentCallTool)
  /\ WF_vars(AgentSend)

TypeOK ==
  /\ variant \in Variants
  /\ registered \in BOOLEAN
  /\ sys_stdout \in {HostStream("stdout"), CaptureStream("stdout")}
  /\ sys_stderr \in {HostStream("stderr"), CaptureStream("stderr")}
  /\ httpd \in BOOLEAN
  /\ boundSockets \in 0..1
  /\ pendingThreads \in 0..1
  /\ servingThreads \in 0..1
  /\ timerRegs \in 0..1
  /\ lastOp \in {NotRecorded, "none", "start", "start2", "stop"}
  /\ session \in [stopped : BOOLEAN, mark : {NoSession} \cup Ids]
  /\ lpc \in {"idle", "wait"}
  /\ hpc \in {"idle", "loop", "get", "exec", "logging", "shutdown", "blocked",
             "unregistering"}
  /\ tickResult \in {"none", "running", "0.1", "raised"}
  /\ cur \in Ids \cup {NoTask}
  /\ lreq \in Ids \cup {NoTask}
  /\ nextId \in 1..(MaxRequests + 1)
  /\ requestsLeft \in 0..MaxRequests


\* ------------------------------------------------------------ properties
\* Request i was answered 504: its caller stopped waiting.
TimedOut(i) == responses[i] # <<>> /\ responses[i][1].code = 504

\* Number of times Task i occurs in the execution queue.
InQueueCount(i) ==
  Cardinality({k \in 1..Len(execution_queue) : execution_queue[k] = i})

\* Task i was created and put on the execution queue.
Enqueued(i) == task[i].type # "none"

\* C1: every Task process_queue has dequeued gets exactly one Result on its
\* response_queue by the time its handler is over (never more than one
\* before that), whatever the submitted code or the render did.
C1_ExactlyOneResult ==
  \A i \in Ids :
    /\ putCount[ChannelOf(i)] <= 1
    /\ i \in finished => putCount[ChannelOf(i)] = 1

\* C2: no failure raised while a Task is executed leaves process_queue:
\* every invocation that has ended returned 0.1, none ended by raising.
C2_TickAlwaysReturns ==
  /\ tickResult # "raised"
  /\ (hpc = "idle" /\ tickResult # "none") => tickResult = "0.1"

\* C3: a response_queue never holds more than one Result and never receives
\* more than one put in its lifetime.
C3_WriteOnceChannel ==
  \A i \in Ids :
    /\ Len(response_queue[i]) <= 1
    /\ putCount[i] <= 1

\* C4: no Task is lost and none is duplicated: a Task that was enqueued is
\* either still in the queue exactly once and was never dequeued, or is no
\* longer in the queue and was dequeued (executed) exactly once; nothing
\* that was not enqueued is ever in the queue or executed.
C4_NoLostNoDuplicatedTask ==
  \A i \in Ids :
    /\ Enqueued(i) => InQueueCount(i) + execCount[i] = 1
    /\ ~Enqueued(i) => InQueueCount(i) = 0 /\ execCount[i] = 0
    /\ execCount[i] = 1 <=> (i \in running \/ i \in finished)

\* Two Tasks were in the queue together and both were executed.
C4_Witness ==
  /\ <<1, 2>> \in coQueued
  /\ execCount[1] = 1
  /\ execCount[2] = 1
  /\ QEmpty(execution_queue)

\* C5: when B was enqueued behind A (A still queued), then by the time B has
\* been dequeued for execution A's handler is over and A's Result has been
\* written, and A acted on host state before B.
C5_CompletesBeforeNextBegins ==
  \A pair \in coQueued :
    execCount[pair[2]] >= 1 =>
      /\ pair[1] \in finished
      /\ putCount[ChannelOf(pair[1])] >= 1
      /\ \A k \in 1..Len(hostLog) :
           hostLog[k] = pair[2] =>
             \E j \in 1..(k - 1) : hostLog[j] = pair[1]

\* The ordering part of C5 alone: A's handler is over, and A has acted on
\* host state, before B is dequeued.
OrderOfExecution ==
  \A pair \in coQueued :
    execCount[pair[2]] >= 1 =>
      /\ pair[1] \in finished
      /\ \A k \in 1..Len(hostLog) :
           hostLog[k] = pair[2] =>
             \E j \in 1..(k - 1) : hostLog[j] = pair[1]

\* C6: at most one handler runs at any time, it is the one of the Task the
\* host thread holds inside process_queue, and host state is only acted on
\* by a step of the host thread inside process_queue (never by a step of
\* the listener).
C6_OneHandlerOnHostThread ==
  /\ [](/\ Cardinality(running) <= 1
        /\ running # {} => (running = {cur} /\ hpc \in {"exec", "logging"})
        /\ hpc \in {"exec", "logging"} => running = {cur})
  /\ [][(hostLog' # hostLog \/ rendered' # rendered \/ camera' # camera
          \/ outFile' # outFile \/ renderSettings' # renderSettings)
        => (hpc = "exec" /\ lpc' = lpc /\ responses' = responses
            /\ execution_queue' = execution_queue)]_vars

\* A handler runs on the host thread while the listener waits for it and an
\* earlier Task is over.
C6_Witness ==
  /\ running = {2}
  /\ 1 \in finished
  /\ lpc = "wait"
  /\ lreq = 2

\* C7: every Result the listener sends as the answer to a request, and
\* every Result waiting on a request's response_queue, was produced by the
\* Task of that same request.
C7_ResultGoesToItsRequest ==
  \A i \in Ids :
    /\ \A k \in 1..Len(responses[i]) :
         responses[i][k].body.by \in {NoTask, i}
    /\ \A k \in 1..Len(response_queue[i]) :
         response_queue[i][k].by = i

\* Request 1 timed out, its Task later wrote a Result, and request 2 was
\* answered with the Result of its own Task.
C7_Witness ==
  /\ TimedOut(1)
  /\ putCount[ChannelOf(1)] >= 1
  /\ responses[2] # <<>>
  /\ responses[2][1].body.by = 2

\* C8: a caller that timed out got 504 with status error; its Task is not
\* taken out of the queue or cancelled: it stays queued until it is
\* executed, and once its handler is over its Result has been written to
\* the abandoned response_queue.
C8_TimedOutTaskStillAnswered ==
  \A i \in Ids :
    TimedOut(i) =>
      /\ responses[i][1].body.status = "error"
      /\ Enqueued(i)
      /\ \/ InQueueCount(i) = 1
         \/ i \in running
         \/ (i \in finished /\ putCount[ChannelOf(i)] >= 1)

\* C9: a Result put on the response_queue of a caller that already timed
\* out never blocks the host thread and changes nothing the caller or any
\* other request can see: no request ever gets a second HTTP response, the
\* late put leaves every response and the listener where they were, and no
\* response to another request carries that Result.
C9_LateResultHasNoEffect ==
  /\ [](/\ hpc # "blocked"
        /\ \A i \in Ids : Len(responses[i]) <= 1
        /\ \A i \in Ids : TimedOut(i) =>
             \A j \in Ids \ {i} : \A k \in 1..Len(responses[j]) :
               responses[j][k].body.by # i)
  /\ [][\A i \in Ids :
          (TimedOut(i) /\ putCount'[i] > putCount[i]) =>
             /\ responses' = responses
             /\ lpc' = lpc
             /\ lreq' = lreq
             /\ hpc' # "blocked"]_vars

\* The late Result of request 1 sits on its abandoned response_queue, the
\* tick that wrote it has returned, and request 2 has been answered.
C9_Witness ==
  /\ TimedOut(1)
  /\ Len(response_queue[1]) >= 1
  /\ hpc = "idle"
  /\ tickResult = "0.1"
  /\ Len(responses[2]) = 1

C11_ViewStatusCodes ==
  /\ [](\A i \in Ids : task[i].type = "view" =>
          \A k \in 1..Len(responses[i]) :
            LET r == responses[i][k]
            IN  /\ r.code \in {200, 504}
                /\ r.code = 200 <=> r.body.by = i
                /\ r.code = 504 <=> r.body.by = NoTask)
  /\ [][\A i \in Ids :
          (task[i].type = "view" /\ responses'[i] # responses[i]) =>
             LET r == responses'[i][Len(responses'[i])]
             IN  IF response_queue[i] = <<>>
                 THEN r.code = 504
                 ELSE /\ r.body = Head(response_queue[i])
                      /\ r.code = 200]_vars

\* A /view request was answered 200 with an error Result and another with
\* a success Result.
C11_Witness ==
  /\ task[1].type = "view"
  /\ task[2].type = "view"
  /\ responses[1] # <<>>
  /\ responses[1][1].code = 200
  /\ responses[1][1].body.status = "error"
  /\ responses[2] # <<>>
  /\ responses[2][1].code = 200
  /\ responses[2][1].body.status = "success"

\* Request i has arrived.
Arrived(i) == request[i] # NoRequest

\* C12: every POST to a path other than /run and /view is answered 404 with
\* a status-error body, whatever its body, and no Task is enqueued for it.
C12_OtherPathIs404 ==
  \A i \in Ids :
    (Arrived(i) /\ request[i].path = "/other") =>
       /\ responses[i] = <<Response(404, BodyNotFound)>>
       /\ ~Enqueued(i)
       /\ InQueueCount(i) = 0

\* The body of request i cannot be decoded: it is not JSON, or it is sent
\* to /run and is not a JSON object.
Malformed(i) ==
  \/ request[i].body = "invalid"
  \/ (request[i].path = "/run" /\ request[i].body = "nonobject")

\* C13: a request whose body cannot be decoded is answered 500 with a
\* status-error body carrying the exception text, no Task is enqueued or
\* executed for it, and the listener is idle again (ready for the next
\* request) as soon as it has arrived.
C13_MalformedIs500 ==
  /\ [](\A i \in Ids :
          (Arrived(i) /\ Malformed(i)) =>
             /\ responses[i] = <<Response(500, BodyServerError)>>
             /\ responses[i][1].body.status = "error"
             /\ ~Enqueued(i)
             /\ InQueueCount(i) = 0
             /\ execCount[i] = 0
             /\ lreq # i)
  /\ [][\A i \in Ids :
          (~Arrived(i) /\ Arrived(i)' /\ Malformed(i)') =>
             /\ lpc' = "idle"
             /\ execution_queue' = execution_queue]_vars

\* Request 1 was malformed on /run and answered 500; the listener then
\* served request 2 to the end.
C13_Witness ==
  /\ request[1] = [path |-> "/run", body |-> "nonobject"]
  /\ responses[1] # <<>>
  /\ request[2].path = "/run"
  /\ responses[2] # <<>>
  /\ responses[2][1].code = 200

\* The operator that returned in the step just taken is the second (or a
\* later) Start of a row of Starts.
StartedTwiceInARow == lastOp = "start2"

StopReturned == lastOp = "stop"

\* C15: after Stop returns the listener socket is closed (no socket is
\* bound) and process_queue is not registered as a timer; and a Stop invoked
\* while the service is not running (httpd is None: never started, already
\* stopped, or the bind failed) changes no state of the bridge.
C15_StopLeavesNothingRunning ==
  /\ [](StopReturned => (boundSockets = 0 /\ ~timerRegistered))
  /\ [][StopNotRunning =>
          UNCHANGED <<lifeVars, netVars, hostVars, sceneVars, ghostVars,
                      execution_queue, task, coQueued,
                 enqueuedInTick>>]_vars

\* C16: a view Task executed while the scene has no active camera puts one
\* status-error Result, and in that step bpy.ops.render.render is not called
\* for it and the scene's render settings stay as they were.
C16_NoCameraNoRender ==
  [][(hpc = "exec" /\ task[cur].type = "view" /\ ~camera
       /\ hostLog' # hostLog) =>
        /\ rendered' = rendered
        /\ renderSettings' = renderSettings
        /\ Len(response_queue'[cur]) = Len(response_queue[cur]) + 1
        /\ response_queue'[cur][Len(response_queue'[cur])].status = "error"
        /\ response_queue'[cur][Len(response_queue'[cur])].by = cur]_vars

\* A view request was answered with the no-camera error while nothing was
\* ever rendered and the render settings are still the user's.
C16_Witness ==
  /\ responses[1] = <<Response(200, ErrorNoCamera(1))>>
  /\ rendered = {}
  /\ renderSettings = "user"

\* The Results written for request i so far, in the order written: the one
\* the listener took and sent, then those still on the response_queue.
ResultsOf(i) ==
  (IF responses[i] # <<>> /\ responses[i][1].body.by = i
   THEN <<responses[i][1].body>> ELSE <<>>) \o response_queue[i]

\* The text the code of Task i wrote to standard output, in order.
StdoutOf(i) ==
  LET w == SelectSeq(CodeWrites(task[i].content),
                     LAMBDA x : x.stream = "stdout")
  IN  [k \in 1..Len(w) |-> w[k].text]

\* C17: when the code of a code Task completes without raising, the Result
\* of the Task is a success Result whose output is exactly the text the
\* code wrote to standard output, in order; what it wrote to standard error
\* and the bridge's log lines are not in it.
C17_OutputIsStdout ==
  \A i \in Ids :
    (task[i].type = "code" /\ task[i].content \in {"returns", "closesStdout"}
       /\ i \in finished) =>
      /\ ResultsOf(i) # <<>>
      /\ ResultsOf(i)[1].status = "success"
      /\ ResultsOf(i)[1].detail = "output"
      /\ ResultsOf(i)[1].text = StdoutOf(i)

\* C17 for code that returns and leaves sys.stdout open.
OutputIsStdoutWhenOpen ==
  \A i \in Ids :
    (task[i].type = "code" /\ task[i].content = "returns"
       /\ i \in finished) =>
      /\ ResultsOf(i) # <<>>
      /\ ResultsOf(i)[1].status = "success"
      /\ ResultsOf(i)[1].text = <<"a", "b">>

\* C18: when the code of a code Task raises, the Result of the Task is an
\* error Result whose message contains the type name of the exception
\* raised, and no success Result is written for the Task.
C18_RaiseGivesErrorWithType ==
  \A i \in Ids :
    (task[i].type = "code" /\ task[i].content \in {"raises", "raisesBase"}
       /\ i \in finished) =>
      /\ ResultsOf(i) # <<>>
      /\ \A k \in 1..Len(ResultsOf(i)) :
           /\ ResultsOf(i)[k].status = "error"
           /\ \E n \in 1..Len(ResultsOf(i)[k].text) :
                ResultsOf(i)[k].text[n] = RaisedType(task[i].content)

\* C18 for code that raises a subclass of Exception.
RaiseExceptionGivesErrorWithType ==
  \A i \in Ids :
    (task[i].type = "code" /\ task[i].content = "raises"
       /\ i \in finished) =>
      /\ Len(ResultsOf(i)) = 1
      /\ ResultsOf(i)[1].status = "error"
      /\ \E n \in 1..Len(ResultsOf(i)[1].text) :
           ResultsOf(i)[1].text[n] = "ZeroDivisionError"

\* C19: a view Task gets a success Result only when the output file exists
\* after its render returned, and the image is then the encoding of the
\* file that this Task's render wrote, never of a file that was there
\* before; when the file is absent after the render the Result is an error
\* Result.
C19_ImageIsThisRendersFile ==
  /\ [](\A i \in Ids : \A k \in 1..Len(ResultsOf(i)) :
          (task[i].type = "view" /\ ResultsOf(i)[k].status = "success") =>
             /\ i \in rendered
             /\ ResultsOf(i)[k].img = B64(i))
  /\ [][(hpc = "exec" /\ task[cur].type = "view" /\ hostLog' # hostLog) =>
          LET r == response_queue'[cur][Len(response_queue'[cur])]
          IN  /\ r.status = "success" =>
                   (cur \in rendered' /\ outFile' = cur
                    /\ r.img = B64(outFile'))
              /\ (cur \in rendered' /\ outFile' = NoFile) =>
                   r.status = "error"]_vars

\* The first view Task rendered a file and was answered with it; the render
\* of the second wrote no file, and it was answered with an error.
C19_Witness ==
  /\ responses[1] = <<Response(200, SuccessImage(1, 1))>>
  /\ 2 \in rendered
  /\ responses[2] = <<Response(200, ErrorNoFile(2))>>

\* C20: every /run or /view request the listener has started to handle
\* (its Task is enqueued and the listener waits for the Result) eventually
\* has exactly one HTTP response, with status 200, 500 or 504, whether or
\* not process_queue ever runs again; no request ever has two.
C20_EveryRequestAnswered ==
  /\ [](\A i \in Ids :
          /\ Len(responses[i]) <= 1
          /\ (Enqueued(i) /\ responses[i] # <<>>) =>
                responses[i][1].code \in {200, 500, 504})
  /\ \A i \in Ids :
       (lpc = "wait" /\ lreq = i) ~> (Len(responses[i]) = 1 /\ lreq # i)

\* A request was answered 504 while its Task is still in the queue and the
\* timer is not registered: no tick ran, and none will.
C20_Witness ==
  /\ TimedOut(1)
  /\ InQueueCount(1) = 1
  /\ ~timerRegistered
  /\ hpc = "idle"
  /\ lpc = "idle"

\* Tasks are executed in the order they were enqueued (request numbers are
\* given in arrival order).
ExecutedInFifoOrder ==
  \A j, k \in 1..Len(hostLog) : j < k => hostLog[j] < hostLog[k]

\* C21: one tick executes only Tasks that were in the queue when the tick
\* began, in FIFO order: the Task the tick holds is never one that was
\* enqueued while this tick was already executing a Task (such a Task waits
\* for the next tick), so a tick executes no more Tasks than were queued at
\* its start.
C21_TickRunsOnlyWhatWasQueued ==
  /\ ExecutedInFifoOrder
  /\ cur \notin enqueuedInTick

\* The step in which a call of process_queue returns 0.1.
TickReturns == hpc = "loop" /\ hpc' = "idle" /\ tickResult' = "0.1"

C23_CameraTestedFirst ==
  [][(hpc = "exec" /\ task[cur].type = "view" /\ ~camera
       /\ hostLog' # hostLog) =>
        /\ outFile' = outFile
        /\ renderSettings' = renderSettings
        /\ rendered' = rendered
        /\ response_queue'[cur] =
             Append(response_queue[cur], ErrorNoCamera(cur))]_vars

\* The handler of cur ends in this step with a failure: with an error
\* Result put, or with an exception and no Result.
HandlerFails ==
  /\ cur # NoTask
  /\ cur \in finished' \ finished
  /\ LET before == response_queue[ChannelOf(cur)]
         after == response_queue'[ChannelOf(cur)]
     IN  \/ after = before /\ putCount[ChannelOf(cur)] = 0
         \/ /\ Len(after) > Len(before)
            /\ after[Len(after)].status = "error"

\* C24: a failing Task leaves the executor working: the tick goes back to
\* its loop with the Tasks queued behind the failed one still queued in
\* their order, and what the failed code did to the host state stays.
C24_FailureLeavesExecutorWorking ==
  [][HandlerFails =>
        /\ hpc' = "loop"
        /\ timerRegs' = timerRegs
        /\ execution_queue' = execution_queue
        /\ (hpc = "exec" => hostLog' = Append(hostLog, cur))]_vars

\* A Start or Stop operator invocation has just returned.
OperatorReturned == lastOp \in {"start", "start2", "stop"}

\* C25: when a Start or a Stop has returned, process_queue is registered
\* as a timer exactly when a listener is bound and serving; after a Start
\* whose bind failed there is neither a listener nor a registration.
C25_TimerIffListener ==
  OperatorReturned =>
    (timerRegistered <=> (boundSockets > 0 /\ servingThreads > 0))

\* C26: a handler starts only while the service is not stopped, and only
\* for a Task whose request arrived after the Start that began the
\* session: a Task left in the queue when Stop returned is not executed by
\* a later session.
C26_NoTaskExecutedAcrossStop ==
  [][(hpc = "get" /\ hpc' = "exec") =>
        /\ ~session.stopped
        /\ cur' >= session.mark]_vars

\* C27: a Stop invoked while a request waits for its Result comes to an
\* end, with the listener closed and the request answered; while the host
\* thread is inside Stop no tick begins and no Task is executed, and
\* shutdown() does not return while do_POST is still handling the request.
C27_StopTerminates ==
  /\ (hpc = "shutdown" /\ lpc = "wait") ~>
        (hpc = "idle" /\ ~httpd /\ boundSockets = 0 /\ lpc = "idle")
  /\ [][hpc = "shutdown" =>
          /\ hpc' \in {"shutdown", "idle"}
          /\ execCount' = execCount
          /\ (hpc' = "idle" => lpc = "idle")]_vars

\* The host thread is inside httpd.shutdown() while the listener waits for
\* the Result of a Task that is still in the queue.
C27_Witness ==
  /\ hpc = "shutdown"
  /\ lpc = "wait"
  /\ InQueueCount(lreq) = 1
  /\ response_queue[ChannelOf(lreq)] = <<>>

\* The thread that Start created runs start_server_thread to its end or
\* into serve_forever.
ListenerThreadRuns == pendingThreads' < pendingThreads

\* C28: a Start that reports success does not leave the service without
\* a listener.  With operators.py the listener is bound and serving and
\* the tick is registered when Start returns; with __init__.py the thread
\* that Start created, run while no listener is serving, ends up serving
\* unless the port could not be bound (httpd is None then).
C28_StartGivesListener ==
  /\ [](variant = "modules" /\ lastOp \in {"start", "start2"} =>
          servingThreads > 0 /\ boundSockets > 0 /\ timerRegistered)
  /\ [][(ListenerThreadRuns /\ servingThreads = 0) =>
          (servingThreads' > 0 \/ ~httpd')]_vars

\* The requests inside do_POST: arrived and not answered yet.
InDoPost == {i \in Ids : Arrived(i) /\ responses[i] = <<>>}

\* C29: at most one request is inside do_POST, and it is the one the
\* listener is waiting for; every other Task in the execution queue
\* belongs to a request whose caller was answered 504.
C29_OneRequestAtATime ==
  /\ Cardinality(InDoPost) <= 1
  /\ InDoPost = IF lpc = "wait" THEN {lreq} ELSE {}
  /\ \A i \in Ids : (InQueueCount(i) > 0 /\ i \notin InDoPost) => TimedOut(i)

\* The listener waits for the Result of the second request while the Task
\* of the first, whose caller timed out, is still queued in front of it.
C29_Witness ==
  /\ lpc = "wait"
  /\ lreq = 2
  /\ execution_queue = <<1, 2>>
  /\ TimedOut(1)

\* process_queue is in the middle of a code Task.
InCodeTask == cur # NoTask /\ task[cur].type = "code"

\* C30: whenever process_queue is not in the middle of a code Task,
\* sys.stdout and sys.stderr are bound to the streams they were bound to
\* before the Task: the finally clause has undone the redirection, however
\* the handler ended.
C30_StreamsRestored ==
  ~InCodeTask =>
     /\ sys_stdout = HostStream("stdout")
     /\ sys_stderr = HostStream("stderr")

\* A code Task has ended with a Result, and an exception of another has
\* left process_queue.
C30_Witness ==
  /\ ~InCodeTask
  /\ tickResult = "raised"
  /\ \E i \in finished :
       /\ task[i].type = "code"
       /\ task[i].content \in {"raisesBase", "closesStdout"}
  /\ \E i \in finished :
       /\ task[i].type = "code"
       /\ task[i].content \in {"returns", "raises"}

\* A code Task is executed in this step.
CodeExecuted == hpc = "exec" /\ task[cur].type = "code" /\ hostLog' # hostLog

\* C31: the names a code Task binds at top level are bound in a dict of
\* its own.  The globals of the bridge module keep their bindings, and in
\* the dict of every code Task each name the Task did not bind itself has
\* the binding of the bridge module: none made by an earlier Task.
C31_FreshGlobalsPerTask ==
  /\ [](module_globals = BridgeGlobals)
  /\ [][CodeExecuted =>
          \A n \in Names :
            exec_globals'[n] =
              IF n \in CodeBinds(task[cur].content)
              THEN TaskObject(cur, n)
              ELSE BridgeGlobals[n]]_vars

\* Task 1 bound x and returned; Task 2 then rebound execution_queue in its
\* own dict, where x is unbound, and raised.
C31_Witness ==
  /\ hostLog = <<1, 2>>
  /\ task[1].type = "code" /\ task[1].content = "returns"
  /\ task[2].type = "code" /\ task[2].content = "raises"
  /\ exec_globals["execution_queue"] = TaskObject(2, "execution_queue")
  /\ exec_globals["x"] = Unbound
  /\ module_globals["execution_queue"] = ModuleObject("execution_queue")

\* C32: for each prompt the tool loop processes at most max_turns turns,
\* whatever the model and the bridge answer and whether or not a function
\* response is sent, and the handling of the prompt comes to an end.
C32_ToolLoopBounded ==
  /\ [](turnsProcessed <= max_turns /\ turn_count <= max_turns + 1)
  /\ (apc # "input") ~> (apc = "input")

\* agent_client.py stopped at the limit on a response whose only function
\* call is one it sends no function response for.
C32_Witness ==
  /\ agentCode = "agent_client"
  /\ apc = "input"
  /\ response = <<"get_viewport_screenshot">>
  /\ turnsProcessed = max_turns
  /\ turn_count = max_turns + 1

\* A BlenderClient method was called and its Result is at hand.
ClientCalled == http # NoHttp

\* C34: a BlenderClient method does not raise and returns a dict with a
\* status: the JSON body of the answer when its status code is 200, and a
\* status-error dict for 504, for every other status code (the 500 of
\* failed code included) and for an exception of requests.post.
C34_ClientReturnsStatusDict ==
  ClientCalled =>
    /\ toolResult # Raised
    /\ toolResult.status \in {"success", "error"}
    /\ IF http.kind = "response" /\ http.code = 200 /\ IsJson(http.text)
       THEN toolResult = ResponseJson(http.text)
       ELSE toolResult = ErrorDict(toolResult.message)

\* execute_script got the 500 the bridge sends for code that raised.
C34_Witness ==
  /\ apc = "send"
  /\ Head(pending) = "run_blender_script"
  /\ http = HttpResponse(500, JsonDumps(ErrorTraceback(1, "ValueError")))
  /\ toolResult.status = "error"

\* C33: whatever the listener does in between, the host thread reaches
\* execution_queue.get() only with a Task in the queue, so the get returns
\* at once and the tick never waits for a Task.
C33_GetNeverBlocks ==
  hpc = "get" => (~QEmpty(execution_queue) /\ ENABLED TickGet)

\* The host thread is between the empty() test and the get() and the
\* listener has put a second Task in the meantime.
C33_Witness ==
  /\ hpc = "get"
  /\ execution_queue = <<1, 2>>
  /\ 2 \in enqueuedInTick

====
